---- MODULE Spec2Model ----
(***************************************************************************)
(* Media subsystem of the ongoingness API: the MediaRouter handlers        *)
(* (web/routes), the token middleware (web/middleware/Authenticate.ts)     *)
(* and the link method of the Media schema (web/schemas/media.ts).         *)
(*                                                                         *)
(* The Media collection, the binary store and the session log are the     *)
(* state.  A handler is an async function: it runs in turns, one turn per  *)
(* awaited call that reads or writes that state, and between two turns of  *)
(* a request the turns of another request may run.  A request under way    *)
(* holds its position (pc) and its locals in `inflight`; an action is one  *)
(* turn.  A handler ends with a reply (res.json), with next(err), or with  *)
(* a rejected promise.  Every collaborator call (repository, storage,      *)
(* mongoose save) either succeeds or throws; the input `fail` of a turn    *)
(* names the call that throws, and a call the turn does not reach cannot   *)
(* throw.                                                                  *)
(***************************************************************************)
EXTENDS Naturals, Integers, Sequences, FiniteSets, TLC

\* Number of uploads over a run of the routes (ObjectIds are never reused).
MaxMedia == 2
\* Number of uploads over a run of a part of the routes.
MaxUploads == 3
\* Number of Session Records the log may hold.
MaxSessions == 2

Users == {"u1", "u2"}
NoUser == "nobody"
\* era enum of the schema
Eras == {"past", "present"}
\* tokens a request may carry: none, one that jwt.verify rejects, or a
\* valid token of a user (written as the user's name)
Tokens == {"none", "bad"} \cup Users
\* ids a request may name: 0 is an id no record ever has
IdArgs == 0 .. MaxMedia
UploadIdArgs == 0 .. MaxUploads
\* ids the collection has room for
Capacity == IF MaxMedia > MaxUploads THEN MaxMedia ELSE MaxUploads
\* era header of an upload: absent, the two enum values, a value outside it
EraHeaders == {"", "past", "present", "future"}

\* req.file of an upload: undefined, or a file, of which its mimetype matters
NoFile == ""
MimeTypes == {"image/jpeg", "image/png"}
JpegFile == "image/jpeg"

\* the requests that may be under way at the same time
Requests == {"r1", "r2"}

VARIABLES
  media,     \* the Media collection: id -> record (NoMedia when no record)
  files,     \* the binary store: the set of location handles that hold a payload
  sessions,  \* the session log, a sequence of Session Records
  used,      \* number of ids/location handles handed out so far
  doc,       \* a Media document held in memory between method calls
  inflight,  \* the requests under way: request -> its position and locals
  last       \* the turn just taken: its request, where it got, its outcome

vars == <<media, files, sessions, used, doc, inflight, last>>

----------------------------------------------------------------------------
\* Records

NoMedia ==
  [live |-> FALSE, user |-> NoUser, era |-> "none", links |-> <<>>, path |-> 0,
   mimetype |-> "none"]

NewMedia(user, era, path, mimetype) ==
  [live |-> TRUE, user |-> user, era |-> era, links |-> <<>>, path |-> path,
   mimetype |-> mimetype]

IsLive(store, id) == id \in DOMAIN store /\ store[id].live

NoDoc == [id |-> 0, era |-> "none", links |-> <<>>, base |-> 0]

\* A document as a query returns it: a copy of the stored record; base is the
\* number of links the copy shares with the stored array.
Load(store, id) ==
  [id |-> id, era |-> store[id].era, links |-> store[id].links,
   base |-> Len(store[id].links)]

NoPayload == [kind |-> "none", id |-> 0, links |-> <<>>]
LinksPayload(links) == [kind |-> "links", id |-> 0, links |-> links]
IdPayload(id) == [kind |-> "id", id |-> id, links |-> <<>>]
MediaPayload(id) == [kind |-> "media", id |-> id, links |-> <<>>]
ListPayload(ids) == [kind |-> "list", id |-> 0, links |-> ids]
BinaryPayload(path) == [kind |-> "binary", id |-> path, links |-> <<>>]

\* res.json(new Reply(code, 'success', false, payload))
Reply(code, payload) == [via |-> "reply", code |-> code, payload |-> payload]
\* next(new Error(code)): the error middleware answers with that status
NextError(code) == [via |-> "next", code |-> code, payload |-> NoPayload]
\* the handler's promise rejects: neither res nor next is called
Rejected == [via |-> "rejected", code |-> 0, payload |-> NoPayload]
\* res.writeHead(200); res.write(data); res.end()
Stream(path) == [via |-> "stream", code |-> 200, payload |-> BinaryPayload(path)]
\* the handler is suspended at an await: no outcome yet
NoResponse == [via |-> "none", code |-> 0, payload |-> NoPayload]
\* createLink, called as a method: the promise resolves, or rejects
Returned == [via |-> "returned", code |-> 0, payload |-> NoPayload]
Threw == [via |-> "threw", code |-> 0, payload |-> NoPayload]

\* A request: what it carries (token, id, link, file, era) and, once under
\* way, the await it stands at (pc) and the locals it holds: the document
\* loaded (doc), a path read or handed out (path).  pc is "start" when the
\* handler is called and "done" when it has ended.
IdleRequest ==
  [op |-> "none", pc |-> "idle", token |-> "none", id |-> 0, link |-> 0,
   file |-> NoFile, era |-> "none", doc |-> NoDoc, path |-> 0]

Request(op, token, id, link) ==
  [IdleRequest EXCEPT !.op = op, !.pc = "start", !.token = token, !.id = id,
                      !.link = link]

\* A turn: the request that took it, the call that threw in it, where the
\* request stood before (from) and stands after (pc), its outcome (NoResponse
\* while the handler is still under way) and the links its document held in
\* memory before the turn (pre); seq is 2 for a createLink call that repeats
\* the call just made
IdleLast ==
  [op |-> "init", token |-> "none", id |-> 0, link |-> 0, fail |-> "none",
   res |-> NoResponse, pre |-> <<>>, from |-> "idle", pc |-> "idle", seq |-> 1]

----------------------------------------------------------------------------
\* Sequences of ids

Range(s) == {s[i] : i \in 1 .. Len(s)}

Count(s, x) == Cardinality({i \in 1 .. Len(s) : s[i] = x})

\* TRUE when sequence s is an initial part of sequence t
IsPrefix(s, t) == Len(s) <= Len(t) /\ SubSeq(t, 1, Len(s)) = s

\* Array.prototype.indexOf: the first position of x (from 0), -1 when absent
IndexOf(s, x) ==
  IF x \in Range(s)
    THEN (CHOOSE i \in 1 .. Len(s) : s[i] = x /\ \A j \in 1 .. (i - 1) : s[j] # x) - 1
    ELSE -1

RECURSIVE SortedSeq(_)
SortedSeq(S) ==
  IF S = {} THEN <<>>
  ELSE LET m == CHOOSE x \in S : \A y \in S : x <= y
       IN <<m>> \o SortedSeq(S \ {m})

----------------------------------------------------------------------------
\* Authenticate.ts

\* checkToken: res.locals after the middleware ran; it always calls next()
checkToken(token) ==
  IF token = "none" THEN [error |-> 401, user |-> NoUser]
  ELSE IF token \notin Users THEN [error |-> 401, user |-> NoUser]
  ELSE [error |-> 0, user |-> token]

----------------------------------------------------------------------------
\* Collaborators of the router whose code is not part of the sources

\* user.getMedia(id): the record if the user owns it, else null (FALSE here)
OwnedBy(store, user, id) == IsLive(store, id) /\ store[id].user = user

\* mediaController.getRandomPresentMedia(userId): the ids it may return;
\* 0 stands for null
getRandomPresentMedia(store, user) ==
  LET P == {i \in DOMAIN store : store[i].live /\ store[i].user = user
                                 /\ store[i].era = "present"}
  IN IF P = {} THEN {0} ELSE P

\* mediaController.deleteMedia(media): the payload at media.path is removed
deleteMedia(bin, path) == bin \ {path}

\* mediaController.storeMedia(..): the payload is kept under a new handle
storeMedia(bin, handle) == bin \cup {handle}

----------------------------------------------------------------------------
\* schemas/media.ts

\* this.save() after this.links.push(..): mongoose sends the pushed elements
\* as a $push on the stored array; a record that is gone matches nothing
Save(self, store) ==
  IF IsLive(store, self.id)
    THEN [store EXCEPT ![self.id].links =
            @ \o SubSeq(self.links, self.base + 1, Len(self.links))]
    ELSE store

\* createLink without the era check of line 72
createLinkAnyEra(self, linkId, pc, store, fail) ==
  LET same == [self |-> self, store |-> store, threw |-> "none", pc |-> "done"]
  IN IF pc = "get"
       THEN IF fail = "linkGet" THEN [same EXCEPT !.threw = "linkGet"]
            ELSE IF IsLive(store, linkId) /\ IndexOf(self.links, linkId) = -1
              THEN [same EXCEPT !.self = [self EXCEPT !.links = Append(@, linkId)],
                                !.pc = "save"]
            ELSE same
     ELSE IF fail = "save" THEN [same EXCEPT !.threw = "save"]
     ELSE [same EXCEPT !.self = [self EXCEPT !.base = Len(self.links)],
                       !.store = Save(self, store)]

\* createLink assigning [linkId] to this.links instead of pushing
createLinkAssign(self, linkId, pc, store, fail) ==
  LET same == [self |-> self, store |-> store, threw |-> "none", pc |-> "done"]
  IN IF pc = "get"
       THEN IF fail = "linkGet" THEN [same EXCEPT !.threw = "linkGet"]
            ELSE IF IsLive(store, linkId) /\ ~(store[linkId].era = self.era)
                    /\ IndexOf(self.links, linkId) = -1
              THEN [same EXCEPT !.self = [self EXCEPT !.links = <<linkId>>, !.base = 0],
                                !.pc = "save"]
            ELSE same
     ELSE IF fail = "save" THEN [same EXCEPT !.threw = "save"]
     ELSE [same EXCEPT !.self = [self EXCEPT !.base = Len(self.links)],
                       !.store = IF IsLive(store, self.id)
                                   THEN [store EXCEPT ![self.id].links = self.links]
                                   ELSE store]

\* createLink without the indexOf check of line 74
createLinkNoDedupe(self, linkId, pc, store, fail) ==
  LET same == [self |-> self, store |-> store, threw |-> "none", pc |-> "done"]
  IN IF pc = "get"
       THEN IF fail = "linkGet" THEN [same EXCEPT !.threw = "linkGet"]
            ELSE IF IsLive(store, linkId) /\ ~(store[linkId].era = self.era)
              THEN [same EXCEPT !.self = [self EXCEPT !.links = Append(@, linkId)],
                                !.pc = "save"]
            ELSE same
     ELSE IF fail = "save" THEN [same EXCEPT !.threw = "save"]
     ELSE [same EXCEPT !.self = [self EXCEPT !.base = Len(self.links)],
                       !.store = Save(self, store)]

\* createLink without the null check of line 67: a missing target has no era
\* equal to this.era
createLinkNoNullCheck(self, linkId, pc, store, fail) ==
  LET same == [self |-> self, store |-> store, threw |-> "none", pc |-> "done"]
  IN IF pc = "get"
       THEN IF fail = "linkGet" THEN [same EXCEPT !.threw = "linkGet"]
            ELSE IF (~IsLive(store, linkId) \/ ~(store[linkId].era = self.era))
                    /\ IndexOf(self.links, linkId) = -1
              THEN [same EXCEPT !.self = [self EXCEPT !.links = Append(@, linkId)],
                                !.pc = "save"]
            ELSE same
     ELSE IF fail = "save" THEN [same EXCEPT !.threw = "save"]
     ELSE [same EXCEPT !.self = [self EXCEPT !.base = Len(self.links)],
                       !.store = Save(self, store)]

\* mediaSchema.methods.createLink, called on document self, in two turns.
\* pc = "get": await mediaController.get(linkId) reads the collection; the
\* method returns, or tests the target and pushes the id onto this.links
\* in memory and calls this.save().  pc = "save": the save writes.
\* fail: "linkGet" (mediaController.get throws), "save" (this.save throws)
\* threw: the call that threw; pc: "save" when the write is still to come
createLink(self, linkId, pc, store, fail) ==
  LET same == [self |-> self, store |-> store, threw |-> "none", pc |-> "done"]
  IN IF pc = "get"
       THEN IF fail = "linkGet" THEN [same EXCEPT !.threw = "linkGet"]
            ELSE IF IsLive(store, linkId) /\ ~(store[linkId].era = self.era)
                    /\ IndexOf(self.links, linkId) = -1
              THEN [same EXCEPT !.self = [self EXCEPT !.links = Append(@, linkId)],
                                !.pc = "save"]
            ELSE same
     ELSE IF fail = "save" THEN [same EXCEPT !.threw = "save"]
     ELSE [same EXCEPT !.self = [self EXCEPT !.base = Len(self.links)],
                       !.store = Save(self, store)]

----------------------------------------------------------------------------
\* routes: MediaRouter.store

\* store creating the record before it persists the binary
storeHandlerRecordFirst(self, fail, store, bin, n) ==
  LET locals == checkToken(self.token)
      era == IF self.era = "" THEN "past" ELSE self.era
      same == [self |-> [self EXCEPT !.pc = "done"], res |-> NoResponse,
               media |-> store, files |-> bin, used |-> n, threw |-> "none"]
  IN IF self.pc = "start"
       THEN IF locals.error # 0 THEN [same EXCEPT !.res = NextError(locals.error)]
            ELSE IF fail = "userGet"
              THEN [same EXCEPT !.res = NextError(500), !.threw = "userGet"]
            ELSE IF self.file = NoFile THEN [same EXCEPT !.res = NextError(400)]
            ELSE IF fail = "store" \/ era \notin Eras
              THEN [same EXCEPT !.res = NextError(500), !.threw = "store"]
            ELSE [same EXCEPT !.self = [self EXCEPT !.pc = "store", !.id = n + 1,
                                                    !.path = n + 1],
                              !.media = [store EXCEPT ![n + 1] =
                                    NewMedia(locals.user, era, n + 1, self.file)],
                              !.used = n + 1]
     ELSE IF fail = "storeMedia"
       THEN [same EXCEPT !.res = NextError(500), !.threw = "storeMedia"]
     ELSE [same EXCEPT !.res = Reply(200, MediaPayload(self.id)),
                       !.files = storeMedia(bin, self.path)]

\* fail: "userGet", "storeMedia", "store"
\* pc = "start": the checks, then await storeMedia(..) keeps the payload
\* (line 419); pc = "store": await mediaController.store(..) creates the
\* record (line 425), then the reply.  The record is given the number of its
\* location handle as id.
\* an era outside the schema's enum fails the record's validation in store
storeHandler(self, fail, store, bin, n) ==
  LET locals == checkToken(self.token)
      era == IF self.era = "" THEN "past" ELSE self.era
      same == [self |-> [self EXCEPT !.pc = "done"], res |-> NoResponse,
               media |-> store, files |-> bin, used |-> n, threw |-> "none"]
  IN IF self.pc = "start"
       THEN IF locals.error # 0 THEN [same EXCEPT !.res = NextError(locals.error)]
            ELSE IF fail = "userGet"
              THEN [same EXCEPT !.res = NextError(500), !.threw = "userGet"]
            ELSE IF self.file = NoFile THEN [same EXCEPT !.res = NextError(400)]
            ELSE IF fail = "storeMedia"
              THEN [same EXCEPT !.res = NextError(500), !.threw = "storeMedia"]
            ELSE [same EXCEPT !.self = [self EXCEPT !.pc = "store", !.id = n + 1,
                                                    !.path = n + 1],
                              !.files = storeMedia(bin, n + 1), !.used = n + 1]
     ELSE IF fail = "store" \/ era \notin Eras
       THEN [same EXCEPT !.res = NextError(500), !.threw = "store"]
     ELSE [same EXCEPT !.res = Reply(200, MediaPayload(self.id)),
                       !.media = [store EXCEPT ![self.id] =
                                    NewMedia(locals.user, era, self.path, self.file)]]

----------------------------------------------------------------------------
\* routes: MediaRouter.destroy

\* destroy removing the record before the payload
destroyHandlerRecordFirst(self, fail, store, bin) ==
  LET locals == checkToken(self.token)
      same == [self |-> [self EXCEPT !.pc = "done"], res |-> NoResponse,
               media |-> store, files |-> bin, threw |-> "none"]
  IN IF self.pc = "start"
       THEN IF locals.error # 0 THEN [same EXCEPT !.res = NextError(locals.error)]
            ELSE IF fail \in {"userGet", "getMedia"}
              THEN [same EXCEPT !.res = NextError(500), !.threw = fail]
            ELSE IF ~OwnedBy(store, locals.user, self.id)
              THEN [same EXCEPT !.res = NextError(404)]
            ELSE [same EXCEPT !.self = [self EXCEPT !.pc = "deleteMedia",
                                                    !.path = store[self.id].path]]
     ELSE IF self.pc = "deleteMedia"
       THEN IF fail = "destroy"
              THEN [same EXCEPT !.res = NextError(500), !.threw = fail]
            ELSE [same EXCEPT !.self = [self EXCEPT !.pc = "destroy"],
                              !.media = [store EXCEPT ![self.id] = NoMedia]]
     ELSE IF fail = "deleteMedia"
       THEN [same EXCEPT !.res = NextError(500), !.threw = fail]
     ELSE [same EXCEPT !.res = Reply(200, NoPayload),
                       !.files = deleteMedia(bin, self.path)]

\* destroy whose catch block drops the error of the record's deletion
destroyHandlerSwallow(self, fail, store, bin) ==
  LET locals == checkToken(self.token)
      same == [self |-> [self EXCEPT !.pc = "done"], res |-> NoResponse,
               media |-> store, files |-> bin, threw |-> "none"]
  IN IF self.pc = "start"
       THEN IF locals.error # 0 THEN [same EXCEPT !.res = NextError(locals.error)]
            ELSE IF fail \in {"userGet", "getMedia"}
              THEN [same EXCEPT !.res = NextError(500), !.threw = fail]
            ELSE IF ~OwnedBy(store, locals.user, self.id)
              THEN [same EXCEPT !.res = NextError(404)]
            ELSE [same EXCEPT !.self = [self EXCEPT !.pc = "deleteMedia",
                                                    !.path = store[self.id].path]]
     ELSE IF self.pc = "deleteMedia"
       THEN IF fail = "deleteMedia"
              THEN [same EXCEPT !.res = NextError(500), !.threw = fail]
            ELSE [same EXCEPT !.self = [self EXCEPT !.pc = "destroy"],
                              !.files = deleteMedia(bin, self.path)]
     ELSE IF fail = "destroy"
       THEN [same EXCEPT !.res = Reply(200, NoPayload), !.threw = fail]
     ELSE [same EXCEPT !.res = Reply(200, NoPayload),
                       !.media = [store EXCEPT ![self.id] = NoMedia]]

\* variant: the record is looked up among the records of all users
destroyHandlerAnyOwner(self, fail, store, bin) ==
  LET locals == checkToken(self.token)
      same == [self |-> [self EXCEPT !.pc = "done"], res |-> NoResponse,
               media |-> store, files |-> bin, threw |-> "none"]
  IN IF self.pc = "start"
       THEN IF locals.error # 0 THEN [same EXCEPT !.res = NextError(locals.error)]
            ELSE IF fail \in {"userGet", "getMedia"}
              THEN [same EXCEPT !.res = NextError(500), !.threw = fail]
            ELSE IF ~IsLive(store, self.id)
              THEN [same EXCEPT !.res = NextError(404)]
            ELSE [same EXCEPT !.self = [self EXCEPT !.pc = "deleteMedia",
                                                    !.path = store[self.id].path]]
     ELSE IF self.pc = "deleteMedia"
       THEN IF fail = "deleteMedia"
              THEN [same EXCEPT !.res = NextError(500), !.threw = fail]
            ELSE [same EXCEPT !.self = [self EXCEPT !.pc = "destroy"],
                              !.files = deleteMedia(bin, self.path)]
     ELSE IF fail = "destroy"
       THEN [same EXCEPT !.res = NextError(500), !.threw = fail]
     ELSE [same EXCEPT !.res = Reply(200, NoPayload),
                       !.media = [store EXCEPT ![self.id] = NoMedia]]

\* fail: "userGet", "getMedia", "deleteMedia" (the payload), "destroy" (the record)
\* pc = "start": the check and await user.getMedia(id) (line 63);
\* pc = "deleteMedia": await deleteMedia(media) (line 74) on the record read;
\* pc = "destroy": await mediaRepository.destroy(media._id) (line 75), then
\* the reply.  Deleting what is already gone succeeds.
destroyHandler(self, fail, store, bin) ==
  LET locals == checkToken(self.token)
      same == [self |-> [self EXCEPT !.pc = "done"], res |-> NoResponse,
               media |-> store, files |-> bin, threw |-> "none"]
  IN IF self.pc = "start"
       THEN IF locals.error # 0 THEN [same EXCEPT !.res = NextError(locals.error)]
            ELSE IF fail \in {"userGet", "getMedia"}
              THEN [same EXCEPT !.res = NextError(500), !.threw = fail]
            ELSE IF ~OwnedBy(store, locals.user, self.id)
              THEN [same EXCEPT !.res = NextError(404)]
            ELSE [same EXCEPT !.self = [self EXCEPT !.pc = "deleteMedia",
                                                    !.path = store[self.id].path]]
     ELSE IF self.pc = "deleteMedia"
       THEN IF fail = "deleteMedia"
              THEN [same EXCEPT !.res = NextError(500), !.threw = fail]
            ELSE [same EXCEPT !.self = [self EXCEPT !.pc = "destroy"],
                              !.files = deleteMedia(bin, self.path)]
     ELSE IF fail = "destroy"
       THEN [same EXCEPT !.res = NextError(500), !.threw = fail]
     ELSE [same EXCEPT !.res = Reply(200, NoPayload),
                       !.media = [store EXCEPT ![self.id] = NoMedia]]

----------------------------------------------------------------------------
\* routes: MediaRouter.show

\* variant: a record of another user is refused, not reported missing
showHandlerForbidden(self, fail, store, bin) ==
  LET locals == checkToken(self.token)
      same == [self |-> [self EXCEPT !.pc = "done"], res |-> NoResponse,
               threw |-> "none"]
  IN IF self.pc = "start"
       THEN IF locals.error # 0 THEN [same EXCEPT !.res = NextError(locals.error)]
            ELSE IF fail \in {"userGet", "getMedia"}
              THEN [same EXCEPT !.res = NextError(500), !.threw = fail]
            ELSE IF ~IsLive(store, self.id)
              THEN [same EXCEPT !.res = NextError(404)]
            ELSE IF store[self.id].user # locals.user
              THEN [same EXCEPT !.res = NextError(403)]
            ELSE [same EXCEPT !.self = [self EXCEPT !.pc = "s3get",
                                                    !.path = store[self.id].path]]
     ELSE IF fail = "s3get" \/ self.path \notin bin
       THEN [same EXCEPT !.res = NextError(500), !.threw = "s3get"]
     ELSE [same EXCEPT !.res = Stream(self.path)]

\* fail: "userGet", "getMedia", "s3get"
\* pc = "start": the check and await user.getMedia(id) (line 115);
\* pc = "s3get": await getMediaFromS3(media) (line 127) reads the payload at
\* the path of the record read; a payload that is gone cannot be read
showHandler(self, fail, store, bin) ==
  LET locals == checkToken(self.token)
      same == [self |-> [self EXCEPT !.pc = "done"], res |-> NoResponse,
               threw |-> "none"]
  IN IF self.pc = "start"
       THEN IF locals.error # 0 THEN [same EXCEPT !.res = NextError(locals.error)]
            ELSE IF fail \in {"userGet", "getMedia"}
              THEN [same EXCEPT !.res = NextError(500), !.threw = fail]
            ELSE IF ~OwnedBy(store, locals.user, self.id)
              THEN [same EXCEPT !.res = NextError(404)]
            ELSE [same EXCEPT !.self = [self EXCEPT !.pc = "s3get",
                                                    !.path = store[self.id].path]]
     ELSE IF fail = "s3get" \/ self.path \notin bin
       THEN [same EXCEPT !.res = NextError(500), !.threw = "s3get"]
     ELSE [same EXCEPT !.res = Stream(self.path)]

----------------------------------------------------------------------------
\* routes: MediaRouter.getLinks

\* variant: the record is looked up among the caller's records
getLinksHandlerOwned(self, fail, store) ==
  LET same == [self |-> [self EXCEPT !.pc = "done"], res |-> NoResponse,
               threw |-> "none"]
  IN IF fail = "mediaGet" THEN [same EXCEPT !.res = NextError(500), !.threw = fail]
     ELSE IF ~OwnedBy(store, checkToken(self.token).user, self.id) THEN [same EXCEPT !.res = NextError(404)]
     ELSE [same EXCEPT !.res = Reply(200, LinksPayload(store[self.id].links))]

\* fail: "mediaGet"; res.locals is never read; one turn: await
\* mediaController.get(id) (line 176), then the reply
getLinksHandler(self, fail, store) ==
  LET same == [self |-> [self EXCEPT !.pc = "done"], res |-> NoResponse,
               threw |-> "none"]
  IN IF fail = "mediaGet" THEN [same EXCEPT !.res = NextError(500), !.threw = fail]
     ELSE IF ~IsLive(store, self.id) THEN [same EXCEPT !.res = NextError(404)]
     ELSE [same EXCEPT !.res = Reply(200, LinksPayload(store[self.id].links))]

----------------------------------------------------------------------------
\* routes: MediaRouter.getPresent

\* getPresent that replies without recording the session
getPresentHandlerNoRecord(self, pick, fail, log) ==
  LET locals == checkToken(self.token)
      same == [self |-> [self EXCEPT !.pc = "done"], res |-> NoResponse,
               sessions |-> log, threw |-> "none"]
  IN IF self.pc = "start"
       THEN IF locals.error # 0 THEN [same EXCEPT !.res = NextError(locals.error)]
            ELSE IF fail \in {"userGet", "random"}
              THEN [same EXCEPT !.res = NextError(500), !.threw = fail]
            ELSE IF pick = 0 THEN [same EXCEPT !.res = NextError(404)]
            ELSE [same EXCEPT !.self = [self EXCEPT !.pc = "session", !.id = pick]]
     ELSE IF fail = "sessionStore"
       THEN [same EXCEPT !.res = NextError(500), !.threw = fail]
     ELSE [same EXCEPT !.res = Reply(200, IdPayload(self.id))]

\* getPresent without the null check of line 227
getPresentHandlerNoNullCheck(self, pick, fail, log) ==
  LET locals == checkToken(self.token)
      same == [self |-> [self EXCEPT !.pc = "done"], res |-> NoResponse,
               sessions |-> log, threw |-> "none"]
  IN IF self.pc = "start"
       THEN IF locals.error # 0 THEN [same EXCEPT !.res = NextError(locals.error)]
            ELSE IF fail \in {"userGet", "random"}
              THEN [same EXCEPT !.res = NextError(500), !.threw = fail]
            ELSE [same EXCEPT !.self = [self EXCEPT !.pc = "session", !.id = pick]]
     ELSE IF fail = "sessionStore"
       THEN [same EXCEPT !.res = NextError(500), !.threw = fail]
     ELSE [same EXCEPT !.res = Reply(200, IdPayload(self.id)),
                       !.sessions = Append(log, [media |-> self.id,
                                                 user |-> locals.user])]

\* variant: the Session Record is saved over the log instead of added to it
getPresentHandlerOverwrite(self, pick, fail, log) ==
  LET locals == checkToken(self.token)
      same == [self |-> [self EXCEPT !.pc = "done"], res |-> NoResponse,
               sessions |-> log, threw |-> "none"]
  IN IF self.pc = "start"
       THEN IF locals.error # 0 THEN [same EXCEPT !.res = NextError(locals.error)]
            ELSE IF fail \in {"userGet", "random"}
              THEN [same EXCEPT !.res = NextError(500), !.threw = fail]
            ELSE IF pick = 0 THEN [same EXCEPT !.res = NextError(404)]
            ELSE [same EXCEPT !.self = [self EXCEPT !.pc = "session", !.id = pick]]
     ELSE IF fail = "sessionStore"
       THEN [same EXCEPT !.res = NextError(500), !.threw = fail]
     ELSE [same EXCEPT !.res = Reply(200, IdPayload(self.id)),
                       !.sessions = <<[media |-> self.id,
                                       user |-> locals.user]>>]

\* pick: what getRandomPresentMedia returned (0 for null)
\* fail: "userGet", "random", "sessionStore"
\* pc = "start": the check and await getRandomPresentMedia(user._id) (line
\* 225); pc = "session": await sessionController.store(..) (line 231) appends
\* the Session Record of the record selected, then the reply
getPresentHandler(self, pick, fail, log) ==
  LET locals == checkToken(self.token)
      same == [self |-> [self EXCEPT !.pc = "done"], res |-> NoResponse,
               sessions |-> log, threw |-> "none"]
  IN IF self.pc = "start"
       THEN IF locals.error # 0 THEN [same EXCEPT !.res = NextError(locals.error)]
            ELSE IF fail \in {"userGet", "random"}
              THEN [same EXCEPT !.res = NextError(500), !.threw = fail]
            ELSE IF pick = 0 THEN [same EXCEPT !.res = NextError(404)]
            ELSE [same EXCEPT !.self = [self EXCEPT !.pc = "session", !.id = pick]]
     ELSE IF fail = "sessionStore"
       THEN [same EXCEPT !.res = NextError(500), !.threw = fail]
     ELSE [same EXCEPT !.res = Reply(200, IdPayload(self.id)),
                       !.sessions = Append(log, [media |-> self.id,
                                                 user |-> locals.user])]

----------------------------------------------------------------------------
\* routes: MediaRouter.storeLink

\* userRepository.get(res.locals.user.id) inside a try whose catch swallows
\* the error: TRUE when `user` is set afterwards
userResolved(token, fail) == checkToken(token).user # NoUser /\ fail # "userGet"

\* TRUE when both ids of the link request name records of the caller
BothOwned(store, token, mediaId, linkId) ==
  /\ OwnedBy(store, checkToken(token).user, mediaId)
  /\ OwnedBy(store, checkToken(token).user, linkId)

\* variant: only the source is resolved among the caller's records
storeLinkHandlerAnyTarget(self, fail, store) ==
  LET locals == checkToken(self.token)
      same == [self |-> [self EXCEPT !.pc = "done"], res |-> NoResponse,
               media |-> store, threw |-> "none"]
      thrown == [same EXCEPT !.self = [self EXCEPT !.pc = "rejected"],
                             !.res = Rejected]
  IN IF self.pc = "start"
       THEN IF ~userResolved(self.token, fail)
              THEN [thrown EXCEPT
                      !.threw = IF locals.user # NoUser THEN "userGet" ELSE "none"]
            ELSE IF fail = "getMedia" THEN [thrown EXCEPT !.threw = fail]
            ELSE [same EXCEPT !.self = [self EXCEPT !.pc = "link",
                      !.doc = IF OwnedBy(store, locals.user, self.id)
                                THEN Load(store, self.id) ELSE NoDoc]]
     ELSE IF self.pc = "link"
       THEN IF fail = "getMedia" THEN [thrown EXCEPT !.threw = fail]
            ELSE IF self.doc.id = 0 \/ ~IsLive(store, self.link)
              THEN [same EXCEPT !.res = NextError(404)]
            ELSE [same EXCEPT !.self = [self EXCEPT !.pc = "get"]]
     ELSE LET c == createLink(self.doc, self.link, self.pc, store, fail) IN
          IF c.threw # "none"
            THEN [thrown EXCEPT !.self = [self EXCEPT !.pc = "rejected", !.doc = c.self],
                                !.threw = c.threw]
          ELSE IF c.pc = "save"
            THEN [same EXCEPT !.self = [self EXCEPT !.pc = "save", !.doc = c.self]]
          ELSE [same EXCEPT !.self = [self EXCEPT !.pc = "done", !.doc = c.self],
                            !.res = Reply(200, NoPayload), !.media = c.store]

\* variant: the edge is recorded on both records
storeLinkHandlerBothWays(self, fail, store) ==
  LET locals == checkToken(self.token)
      same == [self |-> [self EXCEPT !.pc = "done"], res |-> NoResponse,
               media |-> store, threw |-> "none"]
      thrown == [same EXCEPT !.self = [self EXCEPT !.pc = "rejected"],
                             !.res = Rejected]
  IN IF self.pc = "start"
       THEN IF ~userResolved(self.token, fail)
              THEN [thrown EXCEPT
                      !.threw = IF locals.user # NoUser THEN "userGet" ELSE "none"]
            ELSE IF fail = "getMedia" THEN [thrown EXCEPT !.threw = fail]
            ELSE [same EXCEPT !.self = [self EXCEPT !.pc = "link",
                      !.doc = IF OwnedBy(store, locals.user, self.id)
                                THEN Load(store, self.id) ELSE NoDoc]]
     ELSE IF self.pc = "link"
       THEN IF fail = "getMedia" THEN [thrown EXCEPT !.threw = fail]
            ELSE IF self.doc.id = 0 \/ ~OwnedBy(store, locals.user, self.link)
              THEN [same EXCEPT !.res = NextError(404)]
            ELSE [same EXCEPT !.self = [self EXCEPT !.pc = "get"]]
     ELSE LET c == createLink(self.doc, self.link, self.pc, store, fail) IN
          IF c.threw # "none"
            THEN [thrown EXCEPT !.self = [self EXCEPT !.pc = "rejected", !.doc = c.self],
                                !.threw = c.threw]
          ELSE IF c.pc = "save"
            THEN [same EXCEPT !.self = [self EXCEPT !.pc = "save", !.doc = c.self]]
          ELSE [same EXCEPT !.self = [self EXCEPT !.pc = "done", !.doc = c.self],
                            !.res = Reply(200, NoPayload),
                            !.media = IF IsLive(c.store, self.link)
                                        THEN LET b == createLink(Load(c.store, self.link),
                                                        self.id, "get", c.store, "none")
                                             IN createLink(b.self, self.id, b.pc,
                                                           c.store, "none").store
                                        ELSE c.store]

\* fail: "userGet", "getMedia", "linkGet", "save"
\* pc = "start": the user lookup, whose catch swallows the error, and await
\* user.getMedia(mediaId) (line 281) loads the source; with no user resolved
\* that call throws outside any try and the handler's promise rejects;
\* pc = "link": await user.getMedia(linkId) (line 282), then the test of
\* line 284; pc = "get", "save": the two turns of media.createLink(link._id)
\* (line 288) on the source loaded, then the reply.  A handler whose promise
\* rejects ends at pc = "rejected": neither res nor next has been called
storeLinkHandler(self, fail, store) ==
  LET locals == checkToken(self.token)
      same == [self |-> [self EXCEPT !.pc = "done"], res |-> NoResponse,
               media |-> store, threw |-> "none"]
      thrown == [same EXCEPT !.self = [self EXCEPT !.pc = "rejected"],
                             !.res = Rejected]
  IN IF self.pc = "start"
       THEN IF ~userResolved(self.token, fail)
              THEN [thrown EXCEPT
                      !.threw = IF locals.user # NoUser THEN "userGet" ELSE "none"]
            ELSE IF fail = "getMedia" THEN [thrown EXCEPT !.threw = fail]
            ELSE [same EXCEPT !.self = [self EXCEPT !.pc = "link",
                      !.doc = IF OwnedBy(store, locals.user, self.id)
                                THEN Load(store, self.id) ELSE NoDoc]]
     ELSE IF self.pc = "link"
       THEN IF fail = "getMedia" THEN [thrown EXCEPT !.threw = fail]
            ELSE IF self.doc.id = 0 \/ ~OwnedBy(store, locals.user, self.link)
              THEN [same EXCEPT !.res = NextError(404)]
            ELSE [same EXCEPT !.self = [self EXCEPT !.pc = "get"]]
     ELSE LET c == createLink(self.doc, self.link, self.pc, store, fail) IN
          IF c.threw # "none"
            THEN [thrown EXCEPT !.self = [self EXCEPT !.pc = "rejected", !.doc = c.self],
                                !.threw = c.threw]
          ELSE IF c.pc = "save"
            THEN [same EXCEPT !.self = [self EXCEPT !.pc = "save", !.doc = c.self]]
          ELSE [same EXCEPT !.self = [self EXCEPT !.pc = "done", !.doc = c.self],
                            !.res = Reply(200, NoPayload), !.media = c.store]

----------------------------------------------------------------------------
\* routes: MediaRouter.index

\* fail: "userGet", "getAllMedia"; both catch blocks swallow the error; one
\* turn: await user.getAllMedia() (line 347), then the reply
indexHandler(self, fail, store) ==
  LET same == [self |-> [self EXCEPT !.pc = "done"], res |-> Reply(200, NoPayload),
               threw |-> "none"]
  IN IF ~userResolved(self.token, fail)
       THEN [same EXCEPT !.threw = IF checkToken(self.token).user # NoUser
                                     THEN "userGet" ELSE "none"]
     ELSE IF fail = "getAllMedia" THEN [same EXCEPT !.threw = fail]
     ELSE [same EXCEPT !.res = Reply(200, ListPayload(SortedSeq(
              {i \in DOMAIN store : OwnedBy(store, checkToken(self.token).user, i)})))]

----------------------------------------------------------------------------
\* routes: MediaRouter.update

\* variant: update answers success
updateHandlerAccepts(self) ==
  [self |-> [self EXCEPT !.pc = "done"], res |-> Reply(200, NoPayload),
   threw |-> "none"]

\* next(new Error('501')): nothing is awaited
updateHandler(self) ==
  [self |-> [self EXCEPT !.pc = "done"], res |-> NextError(501), threw |-> "none"]

----------------------------------------------------------------------------
\* Requests under way

\* a handler that has ended holds no place in the event loop
Settle(self) == IF self.pc \in {"done", "rejected"} THEN IdleRequest ELSE self

\* the turn request self took, t being what its handler returned
Turn(self, t) ==
  [op |-> self.op, token |-> self.token, id |-> t.self.id, link |-> self.link,
   fail |-> t.threw, res |-> t.res, pre |-> self.doc.links, from |-> self.pc,
   pc |-> t.self.pc, seq |-> 1]

\* requests are numbered as they arrive: a new one takes the first free place
FirstFree == IF inflight["r1"].pc = "idle" THEN "r1" ELSE "r2"

Arrives(r) == r = FirstFree /\ inflight[r].pc = "idle"

UnderWay(r, op) ==
  inflight[r].op = op /\ inflight[r].pc \notin {"idle", "done", "rejected"}

\* the other of the two requests
Other(r) == CHOOSE o \in Requests : o # r

----------------------------------------------------------------------------
\* The routes as actions: a request arrives and takes its first turn, or a
\* request under way takes its next turn

StoreTurn(r, self, fail) ==
  \E t \in {storeHandler(self, fail, media, files, used)} :
    /\ fail # "none" => t.threw = fail
    /\ media' = t.media
    /\ files' = t.files
    /\ used' = t.used
    /\ inflight' = [inflight EXCEPT ![r] = Settle(t.self)]
    /\ last' = Turn(self, t)
    /\ UNCHANGED <<sessions, doc>>

\* one upload request arrives
StoreRequest(r, token, file, eraHeader, fail, max) ==
  /\ Arrives(r)
  /\ used < max
  /\ StoreTurn(r, [Request("store", token, 0, 0) EXCEPT !.file = file,
                                                        !.era = eraHeader], fail)

StoreResume(r, fail) ==
  /\ UnderWay(r, "store")
  /\ StoreTurn(r, inflight[r], fail)

Store ==
  \E r \in Requests, token \in Tokens, file \in {NoFile, JpegFile},
     eraHeader \in EraHeaders, fail \in {"none", "userGet", "storeMedia"} :
    StoreRequest(r, token, file, eraHeader, fail, MaxMedia)

StoreNext ==
  \E r \in Requests, fail \in {"none", "store"} : StoreResume(r, fail)

DestroyTurn(r, self, fail) ==
  \E t \in {destroyHandler(self, fail, media, files)} :
    /\ t.threw = fail
    /\ media' = t.media
    /\ files' = t.files
    /\ inflight' = [inflight EXCEPT ![r] = Settle(t.self)]
    /\ last' = Turn(self, t)
    /\ UNCHANGED <<sessions, used, doc>>

DestroyRequest(r, token, id, fail) ==
  /\ Arrives(r)
  /\ DestroyTurn(r, Request("destroy", token, id, 0), fail)

DestroyResume(r, fail) ==
  /\ UnderWay(r, "destroy")
  /\ DestroyTurn(r, inflight[r], fail)

Destroy ==
  \E r \in Requests, token \in Tokens, id \in IdArgs,
     fail \in {"none", "userGet", "getMedia"} :
    DestroyRequest(r, token, id, fail)

DestroyNext ==
  \E r \in Requests, fail \in {"none", "deleteMedia", "destroy"} :
    DestroyResume(r, fail)

ShowTurn(r, self, fail) ==
  \E t \in {showHandler(self, fail, media, files)} :
    /\ fail # "none" => t.threw = fail
    /\ inflight' = [inflight EXCEPT ![r] = Settle(t.self)]
    /\ last' = Turn(self, t)
    /\ UNCHANGED <<media, files, sessions, used, doc>>

ShowRequest(r, token, id, fail) ==
  /\ Arrives(r)
  /\ ShowTurn(r, Request("show", token, id, 0), fail)

ShowResume(r, fail) ==
  /\ UnderWay(r, "show")
  /\ ShowTurn(r, inflight[r], fail)

Show ==
  \E r \in Requests, token \in Tokens, id \in IdArgs,
     fail \in {"none", "userGet", "getMedia"} :
    ShowRequest(r, token, id, fail)

ShowNext ==
  \E r \in Requests, fail \in {"none", "s3get"} : ShowResume(r, fail)

\* a handler of one turn is never under way between two turns
GetLinksRequest(token, id, fail) ==
  /\ \E t \in {getLinksHandler(Request("getLinks", token, id, 0), fail, media)} :
       /\ t.threw = fail
       /\ last' = Turn(Request("getLinks", token, id, 0), t)
  /\ UNCHANGED <<media, files, sessions, used, doc, inflight>>

GetLinks ==
  \E token \in Tokens, id \in IdArgs, fail \in {"none", "mediaGet"} :
    GetLinksRequest(token, id, fail)

\* Session Records being written by requests under way
Logging == Cardinality({q \in Requests : UnderWay(q, "getPresent")})

\* the log is kept within MaxSessions records: a request goes on to write its
\* Session Record only while the log, with the records of the requests under
\* way, has room for it
GetPresentTurn(r, self, pick, fail) ==
  \E t \in {getPresentHandler(self, pick, fail, sessions)} :
    /\ t.threw = fail
    /\ t.self.pc = "session" => Len(sessions) + Logging < MaxSessions
    /\ sessions' = t.sessions
    /\ inflight' = [inflight EXCEPT ![r] = Settle(t.self)]
    /\ last' = Turn(self, t)
    /\ UNCHANGED <<media, files, used, doc>>

\* the selection draws from the collection as it is when the request arrives
GetPresentRequest(r, token, fail) ==
  /\ Arrives(r)
  /\ \E pick \in getRandomPresentMedia(media, checkToken(token).user) :
       GetPresentTurn(r, Request("getPresent", token, 0, 0), pick, fail)

GetPresentResume(r, fail) ==
  /\ UnderWay(r, "getPresent")
  /\ GetPresentTurn(r, inflight[r], inflight[r].id, fail)

GetPresent ==
  \E r \in Requests, token \in Tokens, fail \in {"none", "userGet", "random"} :
    GetPresentRequest(r, token, fail)

GetPresentNext ==
  \E r \in Requests, fail \in {"none", "sessionStore"} : GetPresentResume(r, fail)

\* watch: the request is kept in view once its handler has ended
StoreLinkTurn(r, self, fail, watch) ==
  \E t \in {storeLinkHandler(self, fail, media)} :
    /\ t.threw = fail
    /\ media' = t.media
    /\ inflight' = [inflight EXCEPT ![r] = IF watch THEN t.self ELSE Settle(t.self)]
    /\ last' = Turn(self, t)
    /\ UNCHANGED <<files, sessions, used, doc>>

StoreLinkRequest(r, token, mediaId, linkId, fail) ==
  /\ Arrives(r)
  /\ StoreLinkTurn(r, Request("storeLink", token, mediaId, linkId), fail, FALSE)

StoreLinkResume(r, fail) ==
  /\ UnderWay(r, "storeLink")
  /\ StoreLinkTurn(r, inflight[r], fail, FALSE)

StoreLink ==
  \E r \in Requests, token \in Tokens, mediaId \in IdArgs, linkId \in IdArgs,
     fail \in {"none", "userGet", "getMedia"} :
    StoreLinkRequest(r, token, mediaId, linkId, fail)

StoreLinkNext ==
  \E r \in Requests, fail \in {"none", "getMedia", "linkGet", "save"} :
    StoreLinkResume(r, fail)

IndexRequest(token, fail) ==
  /\ \E t \in {indexHandler(Request("index", token, 0, 0), fail, media)} :
       /\ t.threw = fail
       /\ last' = Turn(Request("index", token, 0, 0), t)
  /\ UNCHANGED <<media, files, sessions, used, doc, inflight>>

Index ==
  \E token \in Tokens, fail \in {"none", "userGet", "getAllMedia"} :
    IndexRequest(token, fail)

UpdateRequest(token) ==
  /\ last' = Turn(Request("update", token, 0, 0),
                  updateHandler(Request("update", token, 0, 0)))
  /\ UNCHANGED <<media, files, sessions, used, doc, inflight>>

Update == \E token \in Tokens : UpdateRequest(token)

----------------------------------------------------------------------------
\* The link method called on a document, outside the storeLink route

\* a query loads the Media document id; one document is held over a run
LoadDoc ==
  \E id \in 1 .. MaxUploads :
    /\ doc.id = 0
    /\ IsLive(media, id)
    /\ doc' = Load(media, id)
    /\ last' = [IdleLast EXCEPT !.op = "load", !.id = id, !.from = "start",
                                !.pc = "done"]
    /\ UNCHANGED <<media, files, sessions, used, inflight>>

\* one turn of doc.createLink(linkId): the method works on the document held.
\* seq = 2 in the first turn of a call that repeats the call that has just
\* ended (same document, same id, nothing in between) and got past its
\* lookup of the target
CreateLinkTurn(r, self, fail) ==
  \E c \in {createLink(doc, self.link, self.pc, media, fail)} :
    /\ c.threw = fail
    /\ doc' = c.self
    /\ media' = c.store
    /\ inflight' = [inflight EXCEPT ![r] = Settle([self EXCEPT !.pc = c.pc])]
    /\ last' = [IdleLast EXCEPT !.op = "createLink", !.id = doc.id,
                  !.link = self.link, !.fail = fail, !.pre = doc.links,
                  !.from = self.pc, !.pc = c.pc,
                  !.seq = IF self.pc = "get" /\ last.op = "createLink"
                               /\ last.pc = "done" /\ last.id = doc.id
                               /\ last.link = self.link /\ last.fail # "linkGet"
                            THEN 2 ELSE 1,
                  !.res = IF c.threw # "none" THEN Threw
                          ELSE IF c.pc = "done" THEN Returned ELSE NoResponse]
    /\ UNCHANGED <<files, sessions, used>>

\* doc.createLink(linkId) is called on a document whose record exists; the
\* caller awaits it before it calls the method again
CallCreateLink ==
  \E r \in Requests, linkId \in UploadIdArgs, fail \in {"none", "linkGet"} :
    /\ Arrives(r)
    /\ doc.id # 0
    /\ IsLive(media, doc.id)
    /\ \A q \in Requests : ~UnderWay(q, "createLink")
    /\ CreateLinkTurn(r, [Request("createLink", "none", doc.id, linkId)
                            EXCEPT !.pc = "get"], fail)

CallCreateLinkNext ==
  \E r \in Requests, fail \in {"none", "save"} :
    /\ UnderWay(r, "createLink")
    /\ CreateLinkTurn(r, inflight[r], fail)

----------------------------------------------------------------------------
\* Requests of the kinds a part of the routes is run with

\* an upload that succeeds
Upload ==
  \E r \in Requests, token \in Users, eraHeader \in Eras :
    StoreRequest(r, token, JpegFile, eraHeader, "none", MaxUploads)

\* an upload of one user that succeeds: the link method does not read owners
UploadOwn ==
  \E r \in Requests, eraHeader \in Eras :
    StoreRequest(r, "u1", JpegFile, eraHeader, "none", MaxUploads)

\* an upload that succeeds, within the small collection
Add ==
  \E r \in Requests, token \in Users, eraHeader \in Eras :
    StoreRequest(r, token, JpegFile, eraHeader, "none", MaxMedia)

\* an upload that succeeds, within the small collection, of a file of any type
AddTyped ==
  \E r \in Requests, token \in Users, file \in MimeTypes, eraHeader \in Eras :
    StoreRequest(r, token, file, eraHeader, "none", MaxMedia)

\* an upload under way creates its record
Stored == \E r \in Requests : StoreResume(r, "none")

\* a deletion by the owner that succeeds
Remove ==
  \E r \in Requests, token \in Users, id \in 1 .. Capacity :
    /\ OwnedBy(media, token, id)
    /\ DestroyRequest(r, token, id, "none")

\* a deletion under way removes the payload, then the record
Removed == \E r \in Requests : DestroyResume(r, "none")

\* a link request of a signed-in user naming any two ids, no call failing
LinkRequest ==
  \E r \in Requests, token \in Users, mediaId \in IdArgs, linkId \in IdArgs :
    StoreLinkRequest(r, token, mediaId, linkId, "none")

\* a link request of the owner of both records that succeeds
Link ==
  \E r \in Requests, token \in Users, mediaId \in 1 .. MaxMedia,
     linkId \in 1 .. MaxMedia :
    /\ BothOwned(media, token, mediaId, linkId)
    /\ StoreLinkRequest(r, token, mediaId, linkId, "none")

\* a link request under way takes its next turn, no call failing
Linked == \E r \in Requests : StoreLinkResume(r, "none")

\* requests of a signed-in user naming an id that is not a record of theirs
ShowUnowned ==
  \E r \in Requests, token \in Users, id \in IdArgs :
    /\ ~OwnedBy(media, token, id)
    /\ ShowRequest(r, token, id, "none")

DestroyUnowned ==
  \E r \in Requests, token \in Users, id \in IdArgs :
    /\ ~OwnedBy(media, token, id)
    /\ DestroyRequest(r, token, id, "none")

LinkUnowned ==
  \E r \in Requests, token \in Users, mediaId \in IdArgs, linkId \in IdArgs :
    /\ ~BothOwned(media, token, mediaId, linkId)
    /\ StoreLinkRequest(r, token, mediaId, linkId, "none")

\* a signed-in user asks for the payload of any id, or for the list
Browse ==
  \E r \in Requests, token \in Users, id \in IdArgs : ShowRequest(r, token, id, "none")

\* a payload request under way reads the payload
Shown == \E r \in Requests : ShowResume(r, "none")

List ==
  \E token \in Users : IndexRequest(token, "none")

\* a links query of a signed-in user naming any id
LinksQuery ==
  \E token \in Users, id \in IdArgs, fail \in {"none", "mediaGet"} :
    GetLinksRequest(token, id, fail)

\* the requests that read or write no store the log depends on, of one caller
ListOwn == IndexRequest("u1", "none")

LinksQueryOwn == GetLinksRequest("u1", 1, "none")

UpdateOwn == UpdateRequest("u1")

\* the collection is built before the requests arrive
AddFirst ==
  /\ \A r \in Requests : inflight[r].pc = "idle"
  /\ \A i \in DOMAIN media : media[i].links = <<>>
  /\ Add

\* storeLink is called; two requests under way together carry the same user
\* and ids
LinkTwice ==
  \E r \in Requests, token \in Users, mediaId \in 1 .. MaxMedia,
     linkId \in 1 .. MaxMedia :
    /\ UnderWay(Other(r), "storeLink")
         => /\ token = inflight[Other(r)].token
            /\ mediaId = inflight[Other(r)].id
            /\ linkId = inflight[Other(r)].link
    /\ StoreLinkRequest(r, token, mediaId, linkId, "none")

\* storeLink is called with any token, checkToken having passed the request
\* on; the request stays in view when its handler has ended
Call(r) ==
  \E token \in Tokens, mediaId \in 1 .. MaxMedia, linkId \in 1 .. MaxMedia,
     fail \in {"none", "userGet", "getMedia"} :
    /\ inflight[r].pc = "idle"
    /\ StoreLinkTurn(r, Request("storeLink", token, mediaId, linkId), fail, TRUE)

\* the call a watched request awaits returns or fails
Resolve(r) ==
  \E fail \in {"none", "getMedia", "linkGet", "save"} :
    /\ UnderWay(r, "storeLink")
    /\ StoreLinkTurn(r, inflight[r], fail, TRUE)

----------------------------------------------------------------------------
Init ==
  /\ media = [i \in 1 .. Capacity |-> NoMedia]
  /\ files = {}
  /\ sessions = <<>>
  /\ used = 0
  /\ doc = NoDoc
  /\ inflight = [r \in Requests |-> IdleRequest]
  /\ last = IdleLast

\* the media routes
Next ==
  \/ Store
  \/ StoreNext
  \/ Destroy
  \/ DestroyNext
  \/ Show
  \/ ShowNext
  \/ GetLinks
  \/ GetPresent
  \/ GetPresentNext
  \/ StoreLink
  \/ StoreLinkNext
  \/ Index
  \/ Update

Spec == Init /\ [][Next]_vars

\* requests that carry no token, or one that jwt.verify rejects
Unsigned == Tokens \ Users

StoreUnsigned ==
  \E r \in Requests, token \in Unsigned, file \in {NoFile, JpegFile},
     eraHeader \in EraHeaders :
    StoreRequest(r, token, file, eraHeader, "none", MaxMedia)

DestroyUnsigned ==
  \E r \in Requests, token \in Unsigned, id \in IdArgs :
    DestroyRequest(r, token, id, "none")

ShowUnsigned ==
  \E r \in Requests, token \in Unsigned, id \in IdArgs :
    ShowRequest(r, token, id, "none")

GetLinksUnsigned ==
  \E token \in Unsigned, id \in IdArgs : GetLinksRequest(token, id, "none")

GetPresentUnsigned ==
  \E r \in Requests, token \in Unsigned : GetPresentRequest(r, token, "none")

StoreLinkUnsigned ==
  \E r \in Requests, token \in Unsigned, mediaId \in IdArgs, linkId \in IdArgs :
    StoreLinkRequest(r, token, mediaId, linkId, "none")

IndexUnsigned ==
  \E token \in Unsigned : IndexRequest(token, "none")

UpdateUnsigned ==
  \E token \in Unsigned :
    /\ last' = Turn(Request("update", token, 0, 0),
                    updateHandler(Request("update", token, 0, 0)))
    /\ UNCHANGED <<media, files, sessions, used, doc, inflight>>

\* TRUE when no request is under way
Quiet == \A r \in Requests : inflight[r].pc = "idle"

\* requests of one signed-in user, with every failure, served one at a time
StoreSigned ==
  \E r \in Requests, token \in {"u1"}, eraHeader \in Eras,
     fail \in {"none", "userGet", "storeMedia"} :
    /\ Quiet
    /\ StoreRequest(r, token, JpegFile, eraHeader, fail, MaxMedia)

DestroySigned ==
  \E r \in Requests, token \in {"u1"}, id \in IdArgs,
     fail \in {"none", "userGet", "getMedia"} :
    /\ Quiet
    /\ DestroyRequest(r, token, id, fail)

ShowSigned ==
  \E r \in Requests, token \in {"u1"}, id \in IdArgs,
     fail \in {"none", "userGet", "getMedia"} :
    /\ Quiet
    /\ ShowRequest(r, token, id, fail)

GetPresentSigned ==
  \E r \in Requests, token \in {"u1"}, fail \in {"none", "userGet", "random"} :
    /\ Quiet
    /\ GetPresentRequest(r, token, fail)

StoreLinkSigned ==
  \E r \in Requests, token \in {"u1"}, mediaId \in IdArgs, linkId \in IdArgs,
     fail \in {"none", "userGet", "getMedia"} :
    /\ Quiet
    /\ StoreLinkRequest(r, token, mediaId, linkId, fail)

IndexSigned ==
  \E token \in {"u1"}, fail \in {"none", "userGet", "getAllMedia"} :
    IndexRequest(token, fail)

GetLinksSigned ==
  \E token \in {"u1"}, id \in IdArgs, fail \in {"none", "mediaGet"} :
    GetLinksRequest(token, id, fail)

\* uploads and deletions build the collection; the link method is called on
\* a loaded document with any id
NextLink ==
  \/ UploadOwn
  \/ Stored
  \/ Remove
  \/ Removed
  \/ LoadDoc
  \/ CallCreateLink
  \/ CallCreateLinkNext

SpecLink == Init /\ [][NextLink]_vars

\* uploads and deletions build a small collection; links are stored through
\* the route
NextLinkRoute ==
  \/ Add
  \/ Stored
  \/ Remove
  \/ Removed
  \/ LinkRequest
  \/ Linked

SpecLinkRoute == Init /\ [][NextLinkRoute]_vars

\* the routes that touch the binary store, with every failure
NextStorage ==
  \/ Store
  \/ StoreNext
  \/ Destroy
  \/ DestroyNext
  \/ Show
  \/ ShowNext

SpecStorage == Init /\ [][NextStorage]_vars

\* uploads and deletions build the collection; present media is requested
NextPresent ==
  \/ Upload
  \/ Stored
  \/ Remove
  \/ Removed
  \/ GetPresent
  \/ GetPresentNext

SpecPresent == Init /\ [][NextPresent]_vars

\* a small collection with links; the links of any record are queried
NextLinksQuery ==
  \/ Add
  \/ Stored
  \/ Remove
  \/ Removed
  \/ Link
  \/ Linked
  \/ LinksQuery

SpecLinksQuery == Init /\ [][NextLinksQuery]_vars

\* uploads build the collection; users name ids that are not records of
\* theirs
NextUnowned ==
  \/ Add
  \/ Stored
  \/ ShowUnowned
  \/ DestroyUnowned
  \/ LinkUnowned
  \/ Linked

SpecUnowned == Init /\ [][NextUnowned]_vars

\* two storeLink requests of one user for the same source and target, their
\* turns interleaved in any order
NextRace ==
  \/ AddFirst
  \/ Stored
  \/ LinkTwice
  \/ Linked

SpecRace == Init /\ [][NextRace]_vars

\* storeLink requests with any token; every call that is awaited returns or
\* fails
NextOutcome ==
  \/ AddFirst
  \/ Stored
  \/ \E r \in Requests : Call(r)
  \/ \E r \in Requests : Resolve(r)

SpecOutcome ==
  /\ Init
  /\ [][NextOutcome]_vars
  /\ \A r \in Requests : WF_vars(Resolve(r))

\* the routes that write a Media record, and update: files of any type are
\* uploaded, linked and deleted by requests that succeed
NextFields ==
  \/ AddTyped
  \/ Stored
  \/ Remove
  \/ Removed
  \/ Link
  \/ Linked
  \/ Update

SpecFields == Init /\ [][NextFields]_vars

\* a small collection is built and linked by requests that succeed; destroy
\* takes any request, with every failure
NextDestroy ==
  \/ Add
  \/ Stored
  \/ Link
  \/ Linked
  \/ Destroy
  \/ DestroyNext

SpecDestroy == Init /\ [][NextDestroy]_vars

\* the routes that write: a small collection is built, linked and pruned,
\* present media is requested, updates are refused
NextWrites ==
  \/ Add
  \/ Stored
  \/ Remove
  \/ Removed
  \/ Link
  \/ Linked
  \/ Update
  \/ GetPresent
  \/ GetPresentNext

SpecWrites == Init /\ [][NextWrites]_vars

\* every route: a small collection is built, linked, pruned and shown by
\* signed-in users, and getPresent takes any request, with every failure;
\* requests arrive at any time.  index, getLinks and update, which touch
\* neither the log nor a store, are asked by one caller
NextLog ==
  \/ Add
  \/ Stored
  \/ Remove
  \/ Removed
  \/ Link
  \/ Linked
  \/ UpdateOwn
  \/ GetPresent
  \/ GetPresentNext
  \/ Browse
  \/ Shown
  \/ LinksQueryOwn
  \/ ListOwn

SpecLog == Init /\ [][NextLog]_vars

\* a small collection is built and linked; every route is asked without a
\* token, or with one that is not valid
NextAuth ==
  \/ Add
  \/ Stored
  \/ Link
  \/ Linked
  \/ StoreUnsigned
  \/ DestroyUnsigned
  \/ ShowUnsigned
  \/ GetLinksUnsigned
  \/ GetPresentUnsigned
  \/ StoreLinkUnsigned
  \/ IndexUnsigned
  \/ UpdateUnsigned

SpecAuth == Init /\ [][NextAuth]_vars

\* the handlers that call a collaborator, asked by signed-in users, every
\* call failing or not
NextFailures ==
  \/ StoreSigned
  \/ StoreNext
  \/ DestroySigned
  \/ DestroyNext
  \/ ShowSigned
  \/ ShowNext
  \/ GetLinksSigned
  \/ GetPresentSigned
  \/ GetPresentNext
  \/ StoreLinkSigned
  \/ StoreLinkNext
  \/ IndexSigned

SpecFailures == Init /\ [][NextFailures]_vars

----------------------------------------------------------------------------
\* Properties of the link method (SpecLink)

\* the present-era Media a user owns
PresentOf(store, user) ==
  {i \in DOMAIN store : OwnedBy(store, user, i) /\ store[i].era = "present"}

\* C1: createLink on a document A with the id of an existing Media B of the
\* same era as A (B may be A itself): the turn that looks B up ends the call,
\* A.links is as it was and nothing is written to the collection.
C1_SameEraNoOp ==
  [][(last'.op = "createLink" /\ last'.from = "get" /\ IsLive(media, last'.link)
        /\ media[last'.link].era = doc.era)
      => (doc'.links = doc.links /\ media' = media /\ last'.pc = "done")]_vars

C1_Witness ==
  /\ last.op = "createLink" /\ last.from = "get" /\ last.res = Returned
  /\ IsLive(media, last.link) /\ last.link # doc.id
  /\ media[last.link].era = doc.era
  /\ doc.links # <<>>

\* C2: createLink on a document A with the id of an existing Media B of the
\* other era that A.links does not hold: after the turn that looks B up,
\* A.links holds B's id exactly once and every id it held before; after the
\* save has succeeded the stored array of A, if A still exists, is A.links.
C2_LinkAppended ==
  /\ (last.op = "createLink" /\ last.from = "get" /\ last.fail # "linkGet"
        /\ IsLive(media, last.link) /\ media[last.link].era # doc.era
        /\ last.link \notin Range(last.pre))
     => /\ Count(doc.links, last.link) = 1
        /\ \A x \in Range(last.pre) : Count(doc.links, x) = Count(last.pre, x)
        /\ last.pc = "save"
  /\ (last.op = "createLink" /\ last.from = "save" /\ last.fail = "none"
        /\ IsLive(media, doc.id))
     => /\ media[doc.id].links = doc.links
        /\ Count(doc.links, last.link) = 1

C2_Witness ==
  /\ last.op = "createLink" /\ last.from = "save" /\ last.fail = "none"
  /\ Len(doc.links) = 2
  /\ doc.links[2] = last.link
  /\ media[doc.id].links = doc.links

\* C3: a createLink call that repeats the call just made on the same document
\* with the same id, nothing in between, ends in its first turn and changes
\* neither A.links nor the collection: two calls in sequence leave what one
\* call leaves.
C3_Idempotent ==
  [][(last'.op = "createLink" /\ last'.seq = 2)
      => (doc'.links = doc.links /\ media' = media /\ last'.pc = "done")]_vars

C3_Witness ==
  /\ last.op = "createLink" /\ last.seq = 2 /\ last.fail = "none"
  /\ IsLive(media, last.link)
  /\ Count(doc.links, last.link) = 1

\* C4: createLink with an id whose lookup finds no record returns without
\* throwing and leaves A.links and the collection as they were.
C4_MissingTargetNoOp ==
  [][(last'.op = "createLink" /\ last'.from = "get" /\ last'.fail # "linkGet"
        /\ ~IsLive(media, last'.link))
      => (last'.res = Returned /\ doc'.links = doc.links /\ media' = media)]_vars

C4_Witness ==
  /\ last.op = "createLink" /\ last.from = "get" /\ last.fail = "none"
  /\ ~IsLive(media, last.link)
  /\ last.res = Returned

----------------------------------------------------------------------------
\* Properties of present-media selection (SpecPresent)

\* C5: a getPresent request of user U selects, in its first turn, the id of a
\* record that U owns and that is of era present when it is selected, and
\* writes nothing; it replies only in its second turn, with that id and 200,
\* and that turn appends exactly one Session Record, of that id and U.
C5_PresentSelected ==
  [][last'.op = "getPresent"
      => /\ (last'.from = "start" /\ last'.pc = "session")
              => /\ last'.id \in PresentOf(media, last'.token)
                 /\ sessions' = sessions
         /\ last'.res.via = "reply"
              => /\ last'.from = "session"
                 /\ last'.res = Reply(200, IdPayload(last'.id))
                 /\ sessions' = Append(sessions, [media |-> last'.id,
                                                  user |-> last'.token])
                 /\ \E r \in Requests :
                      /\ UnderWay(r, "getPresent")
                      /\ inflight[r].id = last'.id /\ inflight[r].token = last'.token
                      /\ inflight'[r] = IdleRequest]_vars

\* the caller owns two present records and was given one; another user's
\* present record exists
C5_Witness ==
  /\ last.op = "getPresent" /\ last.res = Reply(200, IdPayload(last.id))
  /\ last.id \in PresentOf(media, last.token)
  /\ Cardinality(PresentOf(media, last.token)) = 2
  /\ \E u \in Users : u # last.token /\ PresentOf(media, u) # {}
  /\ sessions = <<[media |-> last.id, user |-> last.token]>>

\* C6: a getPresent request of a signed-in user who owns no present-era
\* record when the selection is made is answered not-found (404) in that
\* turn, when no call fails, and leaves the session log as it was.
C6_NoPresentNotFound ==
  [][(last'.op = "getPresent" /\ last'.from = "start" /\ last'.token \in Users
        /\ PresentOf(media, last'.token) = {})
      => /\ sessions' = sessions
         /\ last'.pc = "done"
         /\ last'.fail = "none" => last'.res = NextError(404)]_vars

\* the caller owns a past record only; another user owns a present one
C6_Witness ==
  /\ last.op = "getPresent" /\ last.res = NextError(404) /\ last.token \in Users
  /\ \E i \in DOMAIN media : OwnedBy(media, last.token, i)
  /\ PresentOf(media, last.token) = {}
  /\ \E u \in Users : PresentOf(media, u) # {}
  /\ sessions = <<>>

----------------------------------------------------------------------------
\* Properties of the routes behind checkToken (SpecAuth)

ProtectedOps ==
  {"index", "store", "show", "update", "destroy", "getLinks", "storeLink",
   "getPresent"}

\* C7 as claimed: a request to a protected media route that carries no token
\* or an invalid token is answered Unauthorized (401) with no payload.
C7_Unauthorized ==
  (last.op \in ProtectedOps /\ last.token \notin Users)
  => last.res = NextError(401)

----------------------------------------------------------------------------
\* Properties of the routes that touch the binary store (SpecStorage)

\* C8: destroy removes the record only after the payload's deletion
\* succeeded. The turn in which the payload's deletion fails ends the request
\* with a server error (500) and removes nothing: a record there before it
\* is there after it. A request that stands before the record's deletion has
\* had its payload removed, and only such a request's turn removes a record.
C8_PayloadBeforeRecord ==
  [][/\ \A r \in Requests :
          (UnderWay(r, "destroy")' /\ inflight'[r].pc = "destroy")
            => inflight'[r].path \notin files'
     /\ last'.op = "destroy"
          => /\ last'.fail = "deleteMedia"
                  => /\ last'.res = NextError(500) /\ last'.pc = "done"
                     /\ media' = media /\ files' = files
             /\ media' # media => last'.from = "destroy"]_vars

\* the payload's deletion failed: the record and its payload are still there
C8_Witness ==
  /\ last.op = "destroy" /\ last.fail = "deleteMedia"
  /\ last.res = NextError(500)
  /\ IsLive(media, last.id) /\ media[last.id].path \in files

\* C9: a destroy whose payload deletion succeeded and whose record deletion
\* fails is answered with a server error (500); the failing turn changes
\* nothing, so the record it was to remove is still there, a lookup by its
\* owner returns it, and its payload is gone.
C9_RecordDeletionFails ==
  [][(last'.op = "destroy" /\ last'.fail = "destroy")
      => /\ last'.res = NextError(500)
         /\ media' = media /\ files' = files
         /\ \A r \in Requests :
              (UnderWay(r, "destroy") /\ inflight'[r] # inflight[r])
                => /\ inflight[r].pc = "destroy"
                   /\ inflight[r].path \notin files'
                   /\ IsLive(media, inflight[r].id)
                        => /\ OwnedBy(media', inflight[r].token, inflight[r].id)
                           /\ media'[inflight[r].id].path = inflight[r].path]_vars

\* the record's deletion failed: the record is there without its payload
C9_Witness ==
  /\ last.op = "destroy" /\ last.fail = "destroy"
  /\ last.res = NextError(500)
  /\ OwnedBy(media, last.token, last.id)
  /\ media[last.id].path \notin files

\* C10: store persists the binary before it creates the record. The turn in
\* which persisting fails ends the request with a server error (500) and
\* creates nothing; a record is created only by the second turn of a store,
\* and the payload at its path is in the binary store when it is created.
C10_BinaryBeforeRecord ==
  [][/\ (last'.op = "store" /\ last'.fail = "storeMedia")
          => /\ last'.res = NextError(500) /\ last'.pc = "done"
             /\ media' = media /\ files' = files
     /\ \A i \in DOMAIN media :
          (~IsLive(media, i) /\ IsLive(media', i))
            => /\ last'.op = "store" /\ last'.from = "store"
               /\ media'[i].path \in files]_vars

\* an upload was answered 200: its record and its payload are there
C10_Witness ==
  /\ last.op = "store" /\ last.res = Reply(200, MediaPayload(last.id))
  /\ IsLive(media, last.id)
  /\ media[last.id].path \in files

----------------------------------------------------------------------------
\* Properties of the storeLink route (SpecLinkRoute)

\* TRUE when request r takes the turn of this step from position pc
Takes(r, op, pc) ==
  /\ UnderWay(r, op) /\ inflight[r].pc = pc
  /\ inflight'[r] # inflight[r]

\* C11: the two lookups of a storeLink request of user U write nothing; when
\* the source was not a record of U when it was looked up, or the target is
\* not a record of U when it is looked up, the request is answered not-found
\* (404) and no links change; createLink is called only when both were found
\* among U's records, and only its save changes links.
C11_LinkNeedsOwnership ==
  [][last'.op = "storeLink"
      => /\ last'.from \in {"start", "link"} => media' = media
         /\ \A r \in Requests :
              Takes(r, "storeLink", "link")
                => IF inflight[r].doc.id = 0
                        \/ ~OwnedBy(media, inflight[r].token, inflight[r].link)
                     THEN last'.res = NextError(404) /\ media' = media
                     ELSE /\ inflight'[r].pc = "get"
                          /\ IsLive(media, inflight[r].id)
                               => OwnedBy(media, inflight[r].token, inflight[r].id)
         /\ last'.pc \in {"get", "save"} => last'.from \in {"link", "get"}
         /\ media' # media => last'.from = "save"]_vars

\* a caller named an own source and another user's record: not found
C11_Witness ==
  /\ last.op = "storeLink" /\ last.from = "link" /\ last.res = NextError(404)
  /\ OwnedBy(media, last.token, last.id)
  /\ IsLive(media, last.link) /\ media[last.link].user # last.token
  /\ media[last.link].era # media[last.id].era
  /\ media[last.id].links = <<>>

----------------------------------------------------------------------------
\* C12: linking is not symmetric. The turn of a storeLink(M1, M2) request
\* that replies success leaves every record other than M1 as it was,
\* M2.links included; when it saved M2 to an M1 without links, getLinks(M1)
\* afterwards returns [M2].
C12_OneDirection ==
  [][(last'.op = "storeLink" /\ last'.res = Reply(200, NoPayload))
      => /\ \A i \in DOMAIN media : i # last'.id => media'[i] = media[i]
         /\ (last'.from = "save" /\ IsLive(media, last'.id)
               /\ media[last'.id].links = <<>>)
              => getLinksHandler(Request("getLinks", last'.token, last'.id, 0),
                                 "none", media').res
                   = Reply(200, LinksPayload(<<last'.link>>))]_vars

\* M1 (past) was linked to M2 (present): M1.links = [M2], M2.links is empty
C12_Witness ==
  /\ last.op = "storeLink" /\ last.res = Reply(200, NoPayload)
  /\ last.from = "save"
  /\ IsLive(media, last.id) /\ IsLive(media, last.link)
  /\ media[last.id].era = "past" /\ media[last.link].era = "present"
  /\ media[last.id].links = <<last.link>>
  /\ media[last.link].links = <<>>

----------------------------------------------------------------------------
\* C13 as claimed: when B is already in A.links or A is already in B.links,
\* linking A to B changes nothing: the turn in which createLink tests the
\* target ends the request and no save follows.
C13_EitherDirectionNoOp ==
  [][(last'.op = "storeLink" /\ last'.from = "get" /\ last'.fail = "none"
        /\ IsLive(media, last'.id) /\ IsLive(media, last'.link)
        /\ media[last'.id].links = last'.pre
        /\ (\/ last'.link \in Range(media[last'.id].links)
            \/ last'.id \in Range(media[last'.link].links)))
      => (last'.pc = "done" /\ media' = media)]_vars

\* C13: linking A to B when B is already in A.links, as the request loaded
\* them, changes nothing and the request replies success; an edge recorded on
\* B alone does not stop the link: with different eras and B not in A.links
\* the request goes on to save, and the save appends B to the stored A.links.
C13_SourceListDedupe ==
  [][last'.op = "storeLink"
      => /\ \A r \in Requests :
              (Takes(r, "storeLink", "get") /\ last'.fail = "none")
                => /\ media' = media
                   /\ inflight[r].link \in Range(inflight[r].doc.links)
                        => last'.res = Reply(200, NoPayload)
                   /\ (/\ inflight[r].link \notin Range(inflight[r].doc.links)
                       /\ IsLive(media, inflight[r].link)
                       /\ media[inflight[r].link].era # inflight[r].doc.era)
                        => /\ inflight'[r].pc = "save"
                           /\ inflight'[r].doc.links
                                = Append(inflight[r].doc.links, inflight[r].link)
         /\ (last'.from = "save" /\ last'.fail = "none" /\ IsLive(media, last'.id))
              => media'[last'.id].links = Append(media[last'.id].links, last'.link)]_vars

\* B was linked to A once more: A.links still holds B once
C13_Witness ==
  /\ last.op = "storeLink" /\ last.from = "get" /\ last.res = Reply(200, NoPayload)
  /\ last.link \in Range(last.pre)
  /\ IsLive(media, last.id)
  /\ media[last.id].links = last.pre
  /\ Count(media[last.id].links, last.link) = 1

----------------------------------------------------------------------------
\* C14: a getLinks request of any signed-in caller changes no state and, when
\* the lookup does not fail, returns exactly the links of the record with that
\* id, whoever owns it, and not-found (404) when there is no such record.
C14_LinksOfAnyRecord ==
  [][last'.op = "getLinks"
      => /\ UNCHANGED <<media, files, sessions, used, inflight>>
         /\ last'.fail = "none"
              => last'.res = IF IsLive(media, last'.id)
                               THEN Reply(200, LinksPayload(media[last'.id].links))
                               ELSE NextError(404)]_vars

\* a caller was given the links of another user's record
C14_Witness ==
  /\ last.op = "getLinks" /\ last.token \in Users
  /\ IsLive(media, last.id) /\ media[last.id].user # last.token
  /\ media[last.id].links # <<>>
  /\ last.res = Reply(200, LinksPayload(media[last.id].links))

----------------------------------------------------------------------------
\* the collection with the records of every user but `user` taken away
WithoutOthers(store, user) ==
  [i \in DOMAIN store |-> IF store[i].user = user THEN store[i] ELSE NoMedia]

\* what a caller learns from a turn: the answer, and whether the handler goes on
Seen(t) == [res |-> t.res, pc |-> t.self.pc, doc |-> t.self.doc]

\* C15: for show, destroy and storeLink, a request of a signed-in caller that
\* names a record of another user is answered not-found (404) by the turn
\* that looks the record up, as for an id that names nothing; and in every
\* state every turn of the three handlers answers the caller exactly as it
\* would were the records of all other users absent.
C15_OthersRecordsHidden ==
  /\ (/\ last.token \in Users /\ last.fail = "none"
      /\ \/ /\ last.op \in {"show", "destroy"} /\ last.from = "start"
            /\ IsLive(media, last.id) /\ media[last.id].user # last.token
         \/ /\ last.op = "storeLink" /\ last.from = "link"
            /\ \/ IsLive(media, last.id) /\ media[last.id].user # last.token
               \/ IsLive(media, last.link) /\ media[last.link].user # last.token)
     => last.res = NextError(404)
  /\ \A u \in Users, id \in IdArgs :
       /\ \A fail \in {"none", "userGet", "getMedia"} :
            /\ Seen(showHandler(Request("show", u, id, 0), fail, media, files))
                 = Seen(showHandler(Request("show", u, id, 0), fail,
                                    WithoutOthers(media, u), files))
            /\ Seen(destroyHandler(Request("destroy", u, id, 0), fail, media, files))
                 = Seen(destroyHandler(Request("destroy", u, id, 0), fail,
                                       WithoutOthers(media, u), files))
            /\ \A linkId \in IdArgs :
                 Seen(storeLinkHandler(Request("storeLink", u, id, linkId), fail, media))
                   = Seen(storeLinkHandler(Request("storeLink", u, id, linkId), fail,
                                           WithoutOthers(media, u)))
  /\ \A r \in Requests, fail \in {"none", "getMedia", "linkGet", "save"} :
       UnderWay(r, "storeLink")
         => Seen(storeLinkHandler(inflight[r], fail, media))
              = Seen(storeLinkHandler(inflight[r], fail,
                                      WithoutOthers(media, inflight[r].token)))

\* a caller asked for another user's record and was told not-found
C15_Witness ==
  /\ last.op = "show" /\ last.token \in Users /\ last.fail = "none"
  /\ IsLive(media, last.id) /\ media[last.id].user # last.token
  /\ media[last.id].path \in files
  /\ last.res = NextError(404)
  /\ showHandler(Request("show", last.token, 0, 0), "none", media, files).res = last.res

----------------------------------------------------------------------------
\* C16: storeLink requests of one user for the same source A and target B.
\* A request whose save falls on the list it loaded, as it does when the
\* requests run one after the other, leaves B exactly once in A.links, and
\* a request that loads a list holding B ends without a save. Interleaved,
\* each of two requests can load A before the other saves and append B: no
\* id occurs more often than there are requests under way (the state with B
\* twice in A.links is reached).
C16_OnceWhenSequential ==
  [][/\ \A a \in 1 .. MaxMedia, b \in 1 .. MaxMedia :
          Count(media'[a].links, b) <= Cardinality(Requests)
     /\ \A r \in Requests :
          /\ (/\ Takes(r, "storeLink", "save")
              /\ IsLive(media, inflight[r].id)
              /\ media[inflight[r].id].links
                   = SubSeq(inflight[r].doc.links, 1, inflight[r].doc.base))
               => Count(media'[inflight[r].id].links, inflight[r].link) = 1
          /\ (/\ Takes(r, "storeLink", "get")
              /\ inflight[r].link \in Range(inflight[r].doc.links))
               => (media' = media /\ inflight'[r] = IdleRequest)]_vars

\* both requests replied success and B is twice in A.links
C16_Witness ==
  /\ last.op = "storeLink" /\ last.res = Reply(200, NoPayload)
  /\ last.from = "save"
  /\ IsLive(media, last.id)
  /\ Count(media[last.id].links, last.link) = 2
  /\ \A r \in Requests : inflight[r] = IdleRequest

----------------------------------------------------------------------------
\* the media handlers that call a repository or storage collaborator
MediaHandlerOps ==
  {"index", "store", "show", "destroy", "getLinks", "storeLink", "getPresent"}

\* C17 as claimed: in every media handler, when a collaborator call has
\* failed the handler forwards the server error (500); it never replies
\* success.
C17_FailureIsServerError ==
  (last.op \in MediaHandlerOps /\ last.fail # "none") => last.res = NextError(500)

----------------------------------------------------------------------------
\* C18 as claimed: every request to a media handler, an unauthenticated one
\* included, eventually has its outcome, a reply or an error forwarded to the
\* error middleware, provided every collaborator call returns or fails.
C18_EveryRequestAnswered ==
  \A r \in Requests :
    (inflight[r].pc # "idle") ~> (inflight[r].pc = "done")

----------------------------------------------------------------------------
\* C19: in every reachable state, every id in the links of a record A that
\* names a record that still exists names one of the other era than A.
C19_LinksCrossEras ==
  \A a \in DOMAIN media :
    IsLive(media, a) =>
      \A i \in 1 .. Len(media[a].links) :
        IsLive(media, media[a].links[i]) => media[media[a].links[i]].era # media[a].era

\* a past record links a present record that exists
C19_Witness ==
  \E a \in DOMAIN media :
    /\ IsLive(media, a) /\ media[a].era = "past"
    /\ media[a].links # <<>>
    /\ IsLive(media, media[a].links[1]) /\ media[media[a].links[1]].era = "present"

----------------------------------------------------------------------------
\* C20: the session log only grows, and only by a getPresent request that
\* succeeds: every turn either leaves the log as it is or is the turn of a
\* getPresent that replies 200 and appends one record, of the caller and the
\* id returned.
C20_LogAppendOnly ==
  [][\/ sessions' = sessions
     \/ /\ last'.op = "getPresent"
        /\ last'.res.via = "reply" /\ last'.res.code = 200
        /\ sessions' = Append(sessions, [media |-> last'.res.payload.id,
                                         user |-> last'.token])]_vars

\* a getPresent added its record to a log that held the record of another
\* user's request, whose Media has since been deleted: both are in the log
C20_Witness ==
  /\ last.op = "getPresent" /\ last.res = Reply(200, IdPayload(last.id))
  /\ Len(sessions) = 2
  /\ sessions[2] = [media |-> last.id, user |-> last.token]
  /\ sessions[1].user # last.token
  /\ ~IsLive(media, sessions[1].media)

----------------------------------------------------------------------------
\* C21: an existing Media record is changed only by link creation. In every
\* turn a record that exists before and after keeps its owner, era, path and
\* mimetype and its links only grow at the end; a record that changed was
\* changed by storeLink; update answers 501 and changes no state.
C21_OnlyLinksChange ==
  [][/\ \A i \in DOMAIN media :
          (IsLive(media, i) /\ IsLive(media', i))
            => /\ media'[i].user = media[i].user
               /\ media'[i].era = media[i].era
               /\ media'[i].path = media[i].path
               /\ media'[i].mimetype = media[i].mimetype
               /\ IsPrefix(media[i].links, media'[i].links)
               /\ media'[i] # media[i] => last'.op = "storeLink"
     /\ last'.op = "update"
          => /\ last'.res = NextError(501)
             /\ UNCHANGED <<media, files, sessions, used, inflight>>]_vars

\* update was refused while a linked record of an uploaded png exists
C21_Witness ==
  /\ last.op = "update" /\ last.res = NextError(501)
  /\ \E i \in DOMAIN media :
       /\ IsLive(media, i) /\ media[i].mimetype = "image/png"
       /\ media[i].links # <<>>

----------------------------------------------------------------------------
\* C22: links never cross users. In every reachable state, every id in the
\* links of a record A that names a record that still exists names a record
\* of the owner of A.
C22_LinksWithinOwner ==
  \A a \in DOMAIN media :
    IsLive(media, a) =>
      \A i \in 1 .. Len(media[a].links) :
        IsLive(media, media[a].links[i])
          => media[media[a].links[i]].user = media[a].user

\* a storeLink request has linked two records of its caller
C22_Witness ==
  /\ last.op = "storeLink" /\ last.res = Reply(200, NoPayload)
  /\ last.from = "save"
  /\ IsLive(media, last.id) /\ IsLive(media, last.link)
  /\ media[last.id].links = <<last.link>>
  /\ media[last.link].user = last.token /\ media[last.id].user = last.token

----------------------------------------------------------------------------
\* C23: a destroy request removes a payload or a record only when its id
\* names a record of the caller. Its first turn removes nothing and, when
\* the id does not name a record of the caller, ends the request: a
\* signed-in caller is answered not-found (404) unless a lookup fails. The
\* later turns remove at most the payload at the path of the record found
\* and that record; every other record, links included, and every other
\* payload stay. A destroy replying 200 leaves neither that record nor its
\* payload.
C23_DestroyOnlyOwn ==
  [][last'.op = "destroy"
      => /\ last'.from = "start"
              => /\ media' = media /\ files' = files
                 /\ ~OwnedBy(media, checkToken(last'.token).user, last'.id)
                      => /\ last'.pc = "done"
                         /\ last'.res # Reply(200, NoPayload)
                         /\ (last'.token \in Users /\ last'.fail = "none")
                              => last'.res = NextError(404)
         /\ \A i \in DOMAIN media : i # last'.id => media'[i] = media[i]
         /\ \A r \in Requests :
              (UnderWay(r, "destroy") /\ inflight'[r] # inflight[r])
                => /\ files \ files' \subseteq {inflight[r].path}
                   /\ IsLive(media, inflight[r].id)
                        => /\ media[inflight[r].id].user = inflight[r].token
                           /\ media[inflight[r].id].path = inflight[r].path
                   /\ last'.res = Reply(200, NoPayload)
                        => /\ ~IsLive(media', inflight[r].id)
                           /\ inflight[r].path \notin files']_vars

\* a record was deleted by its owner; a record that links it is as before
C23_Witness ==
  /\ last.op = "destroy" /\ last.res = Reply(200, NoPayload)
  /\ ~IsLive(media, last.id)
  /\ \E a \in DOMAIN media :
       /\ IsLive(media, a) /\ media[a].links = <<last.id>>
       /\ media[a].path \in files

====
